---------------------------- MODULE Spec2Model ----------------------------
(***************************************************************************)
(* The conversation gateway of src/main.py: two HTTP handlers              *)
(* (chat_endpoint, chat_stream_endpoint) run one compiled LangGraph graph  *)
(*     START -> chatbot -> (tools_condition) -> tools -> chatbot ...       *)
(* over a MemorySaver checkpointer keyed by thread_id.                     *)
(*                                                                         *)
(* A request is handled by a handler p.  The graph run of a request keeps  *)
(* its own channel values (msgs[p]); the checkpointer keeps, per thread,   *)
(* the latest checkpoint that any run has put (store[t]).  A run reads the *)
(* checkpointer once, when it starts, and puts a checkpoint after the      *)
(* input and after every superstep.                                        *)
(***************************************************************************)
EXTENDS Integers, Sequences, FiniteSets, TLC

\* ------------------------------------------------------------- bounds

\* Number of requests (turns) the model follows; handler p serves turn p.
MaxTurns == 2

\* Supersteps a graph run may take: graph.ainvoke / graph.astream_events are
\* called with a config that sets no "recursion_limit", so the library's
\* default applies.
RecursionLimit == 25

Procs == 1 .. MaxTurns

\* A run is cancelled during one of its first supersteps only (the two model
\* invocations and the two tool steps of the longest terminating turn): a
\* later cancellation does the same to the store.
MaxCancelStep == 3

Threads == {"t1", "t2"}

\* ------------------------------------------------------------ messages

Msg(role, content, calls, tcid, status, turn) ==
    [role |-> role, content |-> content, tool_calls |-> calls,
     tool_call_id |-> tcid, status |-> status, turn |-> turn]

\* SystemMessage(content=SYSTEM_PROMPT)
SystemMessage == Msg("system", <<"SYSTEM_PROMPT">>, <<>>, <<>>, "", 0)

\* HumanMessage(content=request_body.message) of turn p
HumanMessage(p) == Msg("user", <<"q">>, <<>>, <<>>, "", p)

\* add_messages, were the annotation of State.messages lost: the update
\* overwrites the list.
add_messages_overwrite(left, right) == right

\* The reducer of State.messages.  Every message of this program is new
\* (it gets a fresh id), so the reducer appends and never replaces.
add_messages(left, right) == left \o right

\* ------------------------------------------------- the external backends

\* What the model backend and the tool host do during one turn.  A script is
\* a deterministic backend: its k-th invocation in the turn answers Respond.
Scripts == {"final", "tool_ok", "tool_fail", "text_tool", "two_tools",
            "loop", "down", "tool_down"}

\* Scripts that request no tool: the only ones a model with no bound tools
\* can follow.
NoToolScripts == {"final", "down"}

ToolCall(p, k, i) == [name |-> "query", id |-> <<p, k, i>>]

\* The k-th response of the model in turn p: ok = FALSE is a failed
\* invocation (connection, authentication, timeout).
Respond(s, p, k) ==
    CASE s = "final"     -> [ok |-> TRUE, content |-> <<"a", "b">>, calls |-> <<>>]
      [] s = "down"      -> [ok |-> FALSE, content |-> <<>>, calls |-> <<>>]
      [] s = "loop"      -> [ok |-> TRUE, content |-> <<>>,
                             calls |-> <<ToolCall(p, k, 1)>>]
      [] s = "tool_down" -> IF k = 1
                            THEN [ok |-> TRUE, content |-> <<>>,
                                  calls |-> <<ToolCall(p, k, 1)>>]
                            ELSE [ok |-> FALSE, content |-> <<>>, calls |-> <<>>]
      [] s = "text_tool" -> IF k = 1
                            THEN [ok |-> TRUE, content |-> <<"x">>,
                                  calls |-> <<ToolCall(p, k, 1)>>]
                            ELSE [ok |-> TRUE, content |-> <<"a", "b">>, calls |-> <<>>]
      [] s = "two_tools" -> IF k = 1
                            THEN [ok |-> TRUE, content |-> <<>>,
                                  calls |-> <<ToolCall(p, k, 1), ToolCall(p, k, 2)>>]
                            ELSE [ok |-> TRUE, content |-> <<"a", "b">>, calls |-> <<>>]
      [] OTHER           -> IF k = 1
                            THEN [ok |-> TRUE, content |-> <<>>,
                                  calls |-> <<ToolCall(p, k, 1)>>]
                            ELSE [ok |-> TRUE, content |-> <<"a", "b">>, calls |-> <<>>]

\* What the tool host does with the i-th call of the k-th response.
ToolOutcome(s, k, i) ==
    CASE s = "tool_fail"          -> "ToolExecutionError"
      [] s = "two_tools" /\ i = 2 -> "ToolUnavailable"
      [] OTHER                    -> "ok"


\* --------------------------------------------------------------- state

VARIABLES
    mcp_tools,   \* the tools fetched once at startup (empty: the fetch failed)
    store,       \* MemorySaver: thread_id -> messages of the latest checkpoint
    pc,          \* handler -> where its request is
    thread,      \* handler -> request_body.thread_id
    mode,        \* handler -> "invoke" (/conversation) or "stream" (/conversation/stream)
    script,      \* handler -> what the backends do during its turn
    msgs,        \* handler -> state["messages"] of its graph run
    loaded,      \* handler -> the messages of the checkpoint its run started from
    fresh,       \* handler -> no request had used its thread_id when it started
    step,        \* handler -> supersteps its run has executed
    modelCalls,  \* handler -> invocations of llm_with_tools so far
    toolInvs,    \* handler -> tool invocations so far
    lastInput,   \* handler -> messages_with_prompt of its latest model invocation
    yielded,     \* handler -> the increments stream_generator has yielded
    returned,    \* handler -> final_response of chat_endpoint
    err,         \* handler -> the exception that ended its request, or ""
    inflight,    \* handler -> the tool calls of its tools node that are outstanding
    server,      \* MindsDBService.server: "unset" before __init__, then "None" or "connected"
    asked        \* the calls of get_answer_from_agent so far, with what each did

\* The state of the FastAPI application (main.py).
appVars == <<mcp_tools, store, pc, thread, mode, script, msgs, loaded, fresh, step,
             modelCalls, toolInvs, lastInput, yielded, returned, err, inflight>>

\* The state of the MindsDB service object (assistant.py).
serviceVars == <<server, asked>>

vars == <<appVars, serviceVars>>

\* A request is in flight from the moment its graph run has read the
\* checkpointer until the run ends.
InFlight(p) == pc[p] \in {"input", "chatbot", "tools"}

Init ==
    /\ mcp_tools \in {{}, {"query"}}
    /\ store = [t \in Threads |-> <<>>]
    /\ pc = [p \in Procs |-> "idle"]
    /\ thread = [p \in Procs |-> "t1"]
    /\ mode = [p \in Procs |-> "invoke"]
    /\ script = [p \in Procs |-> "final"]
    /\ msgs = [p \in Procs |-> <<>>]
    /\ loaded = [p \in Procs |-> <<>>]
    /\ fresh = [p \in Procs |-> FALSE]
    /\ step = [p \in Procs |-> 0]
    /\ modelCalls = [p \in Procs |-> 0]
    /\ toolInvs = [p \in Procs |-> 0]
    /\ lastInput = [p \in Procs |-> <<>>]
    /\ yielded = [p \in Procs |-> <<>>]
    /\ returned = [p \in Procs |-> <<>>]
    /\ err = [p \in Procs |-> ""]
    /\ inflight = [p \in Procs |-> {}]
    /\ server = "unset"
    /\ asked = <<>>

\* ----------------------------------------------------- the checkpointer

\* get_tuple, were the thread_id of the config ignored: one conversation
\* for every thread.
get_tuple_shared(t) == store["t1"]

\* MemorySaver.get_tuple for config {"configurable": {"thread_id": t}}: the
\* messages of the thread's latest checkpoint, none for an unseen thread_id.
get_tuple(t) == store[t]

\* MemorySaver.put, were the checkpoints not keyed by thread_id.
put_all(t, values) == [u \in Threads |-> values]

\* MemorySaver.put: the run's channel values become the thread's latest
\* checkpoint.
put(t, values) == [store EXCEPT ![t] = values]

\* -------------------------------------------------------- the requests

\* Handlers and thread ids are interchangeable names: turn p is the p-th
\* request to arrive, and "t2" is used only once "t1" has been.
MayStart(p, t) ==
    /\ pc[p] = "idle"
    /\ \A q \in Procs : q < p => pc[q] # "idle"
    /\ t = "t2" => \E q \in Procs : pc[q] # "idle"

\* bind_tools, were a fixed tool list bound instead of the fetched one.
bind_tools_fixed == {"query"}

\* llm_with_tools = model.bind_tools(mcp_tools): the tools the model is
\* advertised are the fetched ones, none when the fetch failed.
bind_tools == mcp_tools

\* graph.ainvoke / graph.astream_events begin: the run reads the thread's
\* latest checkpoint and applies the input {"messages": [HumanMessage]}
\* to it through the reducer.
Begin(p, t, m, s) ==
    /\ MayStart(p, t)
    /\ UNCHANGED serviceVars
    /\ s \in (IF bind_tools = {} THEN NoToolScripts ELSE Scripts)
    /\ pc' = [pc EXCEPT ![p] = "input"]
    /\ thread' = [thread EXCEPT ![p] = t]
    /\ mode' = [mode EXCEPT ![p] = m]
    /\ script' = [script EXCEPT ![p] = s]
    /\ loaded' = [loaded EXCEPT ![p] = get_tuple(t)]
    /\ msgs' = [msgs EXCEPT ![p] = add_messages(get_tuple(t), <<HumanMessage(p)>>)]
    /\ fresh' = [fresh EXCEPT ![p] =
                    \A q \in Procs : pc[q] # "idle" => thread[q] # t]
    /\ UNCHANGED <<mcp_tools, store, step, modelCalls, toolInvs, lastInput,
                   yielded, returned, err, inflight>>

\* POST /conversation
chat_endpoint(p) ==
    /\ pc[p] = "idle"
    /\ \E t \in Threads, s \in Scripts : Begin(p, t, "invoke", s)

\* POST /conversation/stream
chat_stream_endpoint(p) ==
    /\ pc[p] = "idle"
    /\ \E t \in Threads, s \in Scripts : Begin(p, t, "stream", s)

\* The checkpoint of the applied input is put before the first superstep.
put_input(p) ==
    /\ pc[p] = "input"
    /\ UNCHANGED serviceVars
    /\ store' = put(thread[p], msgs[p])
    /\ pc' = [pc EXCEPT ![p] = "chatbot"]
    /\ UNCHANGED <<mcp_tools, thread, mode, script, msgs, loaded, fresh, step,
                   modelCalls, toolInvs, lastInput, yielded, returned, err,
                   inflight>>

\* ------------------------------------------------------ streamed events

\* The events graph.astream_events(version="v2") emits while the chat model
\* answers: one on_chat_model_stream per chunk.  A chunk that carries a
\* tool call has empty content.
ChatModelEvents(resp) ==
    [i \in 1 .. Len(resp.content) |->
        [event |-> "on_chat_model_stream", content |-> resp.content[i], name |-> ""]]
    \o [i \in 1 .. Len(resp.calls) |->
        [event |-> "on_chat_model_stream", content |-> "", name |-> ""]]

\* The events emitted while the tools node runs one call.
ToolEvents(calls) ==
    [i \in 1 .. 2 * Len(calls) |->
        [event |-> IF i % 2 = 1 THEN "on_tool_start" ELSE "on_tool_end",
         content |-> "", name |-> calls[(i + 1) \div 2].name]]

\* The body of the async-for of stream_generator, for one event: what it
\* yields to the client.
OnEvent(e) ==
    IF e.event = "on_chat_model_stream"
    THEN (IF e.content # "" THEN <<e.content>> ELSE <<>>)
    ELSE IF e.event = "on_tool_call"
    THEN <<"[Memanggil tool: " \o e.name \o "...]">>
    ELSE <<>>

RECURSIVE stream_generator(_)
stream_generator(events) ==
    IF events = <<>> THEN <<>>
    ELSE OnEvent(Head(events)) \o stream_generator(Tail(events))

\* ------------------------------------------------------------ the graph

\* The AIMessage the chat model returns.
AIMessage(resp, p) == Msg("assistant", resp.content, resp.calls, <<>>, "", p)

\* tools_condition, were the edge to tools unconditional.
tools_condition_always(last) == "tools"

\* tools_condition: the node that follows chatbot.
tools_condition(last) == IF Len(last.tool_calls) > 0 THEN "tools" ELSE "__end__"

\* ToolNode(tools=mcp_tools, handle_tool_errors=False)
handle_tool_errors_off == FALSE

\* ToolNode(tools=mcp_tools) is built with the default handle_tool_errors:
\* an exception of a tool becomes the content of its ToolMessage.
handle_tool_errors == TRUE

\* ToolMessage, were the result built without the id of the call it answers.
ToolMessage_no_id(call, outcome, p) ==
    Msg("tool", IF outcome = "ok" THEN <<"rows">> ELSE <<"Error: " \o outcome>>,
        <<>>, <<>>, IF outcome = "ok" THEN "success" ELSE "error", p)

\* The ToolMessage of one call, from what the tool host did with it.
ToolMessage(call, outcome, p) ==
    IF call.name \notin mcp_tools
    THEN Msg("tool", <<"Error: not a valid tool">>, <<>>, call.id, "error", p)
    ELSE IF outcome = "ok"
    THEN Msg("tool", <<"rows">>, <<>>, call.id, "success", p)
    ELSE Msg("tool", <<"Error: " \o outcome>>, <<>>, call.id, "error", p)

\* ToolNode: one ToolMessage per tool call of the last AIMessage, in the
\* order of the calls.
ToolNode(last, s, k, p) ==
    [i \in 1 .. Len(last.tool_calls) |->
        ToolMessage(last.tool_calls[i], ToolOutcome(s, k, i), p)]

\* The calls of the last AIMessage whose tool raised.
Raised(last, s, k) ==
    {i \in 1 .. Len(last.tool_calls) :
        last.tool_calls[i].name \in mcp_tools /\ ToolOutcome(s, k, i) # "ok"}

\* The loop's tick after a superstep: the run is out of steps once it has
\* executed more supersteps than the recursion limit.
OutOfSteps(n) == n > RecursionLimit

\* chatbot, were the invocation wrapped in a try/except that answers for
\* the model.
chatbot_swallows(resp) == FALSE

\* llm_with_tools.invoke is called bare: an exception of the model is not
\* caught in the node.
chatbot_raises(resp) == ~resp.ok

\* The tools node awaits asyncio.gather over the calls of the last
\* AIMessage: every call is issued, in the order of the calls, before any
\* result is awaited.
gather(calls) == 1 .. Len(calls)

\* chat_endpoint, were the first message of the result taken.
final_response_first(messages) == messages[1].content

\* final_response = response["messages"][-1].content
final_response(messages) == messages[Len(messages)].content

\* chatbot, were the whole model input returned as the update.
chatbot_returns_input(messages_with_prompt, response) ==
    messages_with_prompt \o <<response>>

\* return {"messages": [response]}: the update of the node is only the new
\* message of the model.
chatbot_returns(messages_with_prompt, response) == <<response>>

\* The chatbot node, one superstep: the model is invoked on the system
\* prompt followed by state["messages"]; its response is added to the
\* state and the checkpoint is put.  An exception of the model leaves the
\* node, the run and the handler.
chatbot(p) ==
    /\ pc[p] = "chatbot"
    /\ UNCHANGED serviceVars
    /\ LET k == modelCalls[p] + 1
           messages_with_prompt == <<SystemMessage>> \o msgs[p]
           resp == Respond(script[p], p, k)
           response == AIMessage(resp, p)
           new == add_messages(msgs[p],
                               chatbot_returns(messages_with_prompt, response))
           next == tools_condition(response)
       IN  /\ modelCalls' = [modelCalls EXCEPT ![p] = k]
           /\ lastInput' = [lastInput EXCEPT ![p] = messages_with_prompt]
           /\ IF chatbot_raises(resp)
              THEN /\ pc' = [pc EXCEPT ![p] = "error"]
                   /\ err' = [err EXCEPT ![p] = "ModelUnavailable"]
                   /\ UNCHANGED <<store, msgs, step, yielded, returned, inflight>>
              ELSE /\ msgs' = [msgs EXCEPT ![p] = new]
                   /\ store' = put(thread[p], new)
                   /\ step' = [step EXCEPT ![p] = @ + 1]
                   /\ yielded' = [yielded EXCEPT ![p] =
                          IF mode[p] = "stream"
                          THEN @ \o stream_generator(ChatModelEvents(resp))
                          ELSE @]
                   /\ IF next = "__end__"
                      THEN /\ pc' = [pc EXCEPT ![p] = "done"]
                           /\ returned' = [returned EXCEPT ![p] =
                                  IF mode[p] = "invoke"
                                  THEN final_response(new) ELSE @]
                           /\ err' = err
                           /\ inflight' = inflight
                      ELSE /\ pc' = [pc EXCEPT ![p] =
                                  IF OutOfSteps(step[p] + 1) THEN "error" ELSE next]
                           /\ err' = [err EXCEPT ![p] =
                                  IF OutOfSteps(step[p] + 1)
                                  THEN "GraphRecursionError" ELSE @]
                           /\ returned' = returned
                           /\ inflight' = [inflight EXCEPT ![p] =
                                  IF OutOfSteps(step[p] + 1) THEN {}
                                  ELSE gather(response.tool_calls)]
    /\ UNCHANGED <<mcp_tools, thread, mode, script, loaded, fresh, toolInvs>>

\* One of several outstanding tool calls returns; the tools node goes on
\* waiting for the others.
tool_return(p) ==
    /\ pc[p] = "tools"
    /\ UNCHANGED serviceVars
    /\ Cardinality(inflight[p]) > 1
    /\ \E i \in inflight[p] : inflight' = [inflight EXCEPT ![p] = @ \ {i}]
    /\ UNCHANGED <<mcp_tools, store, pc, thread, mode, script, msgs, loaded, fresh,
                   step, modelCalls, toolInvs, lastInput, yielded, returned, err>>

\* The tools node, one superstep: the tool calls of the last AIMessage were
\* issued together; when the last of them has returned, the ToolMessages
\* are added to the state in the order of the calls and the checkpoint is
\* put.
tools(p) ==
    /\ pc[p] = "tools"
    /\ UNCHANGED serviceVars
    /\ Cardinality(inflight[p]) <= 1
    /\ inflight' = [inflight EXCEPT ![p] = {}]
    /\ LET last == msgs[p][Len(msgs[p])]
           k == modelCalls[p]
           results == ToolNode(last, script[p], k, p)
           new == add_messages(msgs[p], results)
       IN  /\ toolInvs' = [toolInvs EXCEPT ![p] = @ + Cardinality(
                  {i \in 1 .. Len(last.tool_calls) :
                      last.tool_calls[i].name \in mcp_tools})]
           /\ IF Raised(last, script[p], k) # {} /\ ~handle_tool_errors
              THEN /\ pc' = [pc EXCEPT ![p] = "error"]
                   /\ err' = [err EXCEPT ![p] =
                          ToolOutcome(script[p], k,
                              CHOOSE i \in Raised(last, script[p], k) : TRUE)]
                   /\ UNCHANGED <<store, msgs, step, yielded>>
              ELSE /\ msgs' = [msgs EXCEPT ![p] = new]
                   /\ store' = put(thread[p], new)
                   /\ step' = [step EXCEPT ![p] = @ + 1]
                   /\ yielded' = [yielded EXCEPT ![p] =
                          IF mode[p] = "stream"
                          THEN @ \o stream_generator(ToolEvents(last.tool_calls))
                          ELSE @]
                   /\ pc' = [pc EXCEPT ![p] =
                          IF OutOfSteps(step[p] + 1) THEN "error" ELSE "chatbot"]
                   /\ err' = [err EXCEPT ![p] =
                          IF OutOfSteps(step[p] + 1)
                          THEN "GraphRecursionError" ELSE @]
    /\ UNCHANGED <<mcp_tools, thread, mode, script, loaded, fresh, modelCalls,
                   lastInput, returned>>

\* Cancellation, were the part of the answer received so far saved as a
\* message of the thread.
cancel_store_partial(p, partial) ==
    put(thread[p], add_messages(msgs[p], <<Msg("assistant", partial, <<>>, <<>>, "", p)>>))

\* A cancelled superstep writes nothing: the update of a node reaches the
\* state and the checkpointer only when the node has returned.
cancel_store(p, partial) == store

\* The client of /conversation/stream disconnects while the model or the
\* tools are outstanding: StreamingResponse cancels stream_generator and
\* with it the graph run.  The client has received a part of the increments
\* of the outstanding model response.
cancel(p) ==
    /\ mode[p] = "stream"
    /\ UNCHANGED serviceVars
    /\ pc[p] \in {"chatbot", "tools"}
    /\ step[p] <= MaxCancelStep
    /\ LET resp == Respond(script[p], p, modelCalls[p] + 1)
           increments == IF pc[p] = "chatbot" /\ resp.ok
                         THEN stream_generator(ChatModelEvents(resp)) ELSE <<>>
       IN  \E n \in 0 .. Len(increments) :
               /\ n < Len(increments) \/ increments = <<>>
               /\ yielded' = [yielded EXCEPT ![p] = @ \o SubSeq(increments, 1, n)]
               /\ store' = cancel_store(p, SubSeq(increments, 1, n))
    /\ pc' = [pc EXCEPT ![p] = "cancelled"]
    /\ inflight' = [inflight EXCEPT ![p] = {}]
    /\ UNCHANGED <<mcp_tools, thread, mode, script, msgs, loaded, fresh, step,
                   modelCalls, toolInvs, lastInput, returned, err>>

Next ==
    \E p \in Procs :
        \/ chat_endpoint(p)
        \/ chat_stream_endpoint(p)
        \/ put_input(p)
        \/ chatbot(p)
        \/ tool_return(p)
        \/ tools(p)
        \/ cancel(p)

Spec == Init /\ [][Next]_vars

\* ------------------------------------------------- the MindsDB service

\* Calls of get_answer_from_agent the model follows.
MaxAsks == 2

AgentNames == {"ease_agent", "no_such_agent"}

Questions == {"q1", "q2"}

\* What the MindsDB server does during one call: agents.get returns the
\* agent or raises, agent.completion returns a completion or raises, and a
\* completion has a content or lacks the attribute.
MindsDB ==
    [get : {"AgentNotFound", "ConnectionError"}, completion : {"-"}, content : {"-"}]
    \cup [get : {"ok"}, completion : {"Timeout"}, content : {"-"}]
    \cup [get : {"ok"}, completion : {"ok"},
          content : {"answer", "", "AttributeError"}]

\* What one call did: the value it returned or the exception that left it,
\* and the requests it sent to the server.
Outcome(ret, exc, sent) == [returned |-> ret, raised |-> exc, contacts |-> sent]

\* The exception, if any, raised inside the try block, and the requests sent
\* up to it.
TryBlock(agent_name, question, mindsdb) ==
    LET get == [op |-> "agents.get", arg |-> agent_name]
        completion == [op |-> "completion", arg |-> question]
    IN  IF mindsdb.get # "ok" THEN Outcome("", mindsdb.get, <<get>>)
        ELSE IF mindsdb.completion # "ok"
        THEN Outcome("", mindsdb.completion, <<get, completion>>)
        ELSE IF mindsdb.content = "AttributeError"
        THEN Outcome("", "AttributeError", <<get, completion>>)
        ELSE Outcome(mindsdb.content, "", <<get, completion>>)

\* get_answer_from_agent, were the body not wrapped in try/except.
get_answer_from_agent_no_try(self_server, agent_name, question, mindsdb) ==
    IF self_server = "None"
    THEN Outcome("Error: Tidak terhubung ke MindsDB Server.", "", <<>>)
    ELSE TryBlock(agent_name, question, mindsdb)

\* MindsDBService.get_answer_from_agent
get_answer_from_agent(self_server, agent_name, question, mindsdb) ==
    IF self_server = "None"
    THEN Outcome("Error: Tidak terhubung ke MindsDB Server.", "", <<>>)
    ELSE LET try == TryBlock(agent_name, question, mindsdb)
         IN  IF try.raised # ""
             THEN Outcome("Terjadi kesalahan: " \o try.raised, "", try.contacts)
             ELSE try

\* MindsDBService.__init__: mindsdb_sdk.connect returns the server, or raises
\* and the service keeps None.
MindsDBService ==
    /\ server = "unset"
    /\ server' \in {"connected", "None"}
    /\ UNCHANGED <<appVars, asked>>

\* One call of get_answer_from_agent on the constructed service.
Ask ==
    /\ server # "unset"
    /\ Len(asked) < MaxAsks
    /\ \E agent_name \in AgentNames, question \in Questions, mindsdb \in MindsDB :
          asked' = Append(asked,
              [server |-> server, agent_name |-> agent_name,
               question |-> question, mindsdb |-> mindsdb,
               result |-> get_answer_from_agent(server, agent_name, question,
                                                mindsdb)])
    /\ UNCHANGED <<appVars, server>>

NextService == MindsDBService \/ Ask

SpecService == Init /\ [][NextService]_vars

\* --------------------------------------------------- helpers of the claims

\* The handlers whose request has used thread t.
TurnsOn(t) == {p \in Procs : pc[p] # "idle" /\ thread[p] = t}

ToolErrors == {"ToolUnavailable", "ToolExecutionError"}

\* The k-th response of the model in turn p.
ResponseOf(p, k) == Respond(script[p], p, k)

\* A message with the turn that produced it forgotten: two conversations are
\* the same state when they differ only in which request wrote them.
Untag(m) ==
    [m EXCEPT !.turn = 0,
              !.tool_call_id = IF @ = <<>> THEN <<>> ELSE <<0>> \o Tail(@),
              !.tool_calls = [i \in 1 .. Len(@) |->
                                 [@[i] EXCEPT !.id = <<0>> \o Tail(@)]]]

UntagAll(h) == [i \in 1 .. Len(h) |-> Untag(h[i])]

RECURSIVE SumOver(_, _)
SumOver(S, f) ==
    IF S = {} THEN 0
    ELSE LET x == CHOOSE y \in S : TRUE IN f[x] + SumOver(S \ {x}, f)

\* The turns on t ran one after another: each started from the history the
\* one before it left.
Sequential(t) ==
    \A q \in TurnsOn(t) :
        LET before == {p \in TurnsOn(t) : p < q}
        IN  /\ pc[q] = "done"
            /\ loaded[q] = IF before = {} THEN <<>>
                           ELSE msgs[CHOOSE p \in before : \A r \in before : r <= p]

\* The history of a turn p that runs script s alone on a fresh thread, once
\* k of its model responses and their tool steps are in it.
RECURSIVE Rounds(_, _, _)
Rounds(s, p, k) ==
    IF k = 0 THEN <<HumanMessage(p)>>
    ELSE LET response == AIMessage(Respond(s, p, k), p)
         IN  Rounds(s, p, k - 1) \o <<response>> \o ToolNode(response, s, k, p)

\* The histories a turn p alone on its thread can have left after its
\* modelCalls[p]-th invocation of the model: that response failed, or it is
\* in the history, with or without the results of its tool calls.
AloneHistories(p) ==
    LET k == modelCalls[p]
    IN  IF k = 0 THEN {Rounds(script[p], p, 0)}
        ELSE LET before == Rounds(script[p], p, k - 1)
                 response == AIMessage(Respond(script[p], p, k), p)
             IN  {before, before \o <<response>>,
                  before \o <<response>> \o ToolNode(response, script[p], k, p)}

\* The conversation of t holds messages of the turns on t only, and is the
\* history of its turn alone when it has one turn.
OwnHistory(t) ==
    /\ \A i \in 1 .. Len(store[t]) : store[t][i].turn \in TurnsOn(t)
    /\ \A q \in Procs :
          (TurnsOn(t) = {q} /\ pc[q] # "input") =>
              /\ loaded[q] = <<>>
              /\ store[t] = msgs[q]
              /\ store[t] \in AloneHistories(q)

\* A stored message is whole: it is a complete response of the model in its
\* turn, or the complete result of a tool call of such a response, or the
\* message of the user.
Whole(m) ==
    \/ m = HumanMessage(m.turn)
    \/ \E k \in 1 .. modelCalls[m.turn] :
          LET response == AIMessage(ResponseOf(m.turn, k), m.turn)
          IN  \/ m = response
              \/ \E i \in 1 .. Len(response.tool_calls) :
                     m = ToolMessage(response.tool_calls[i],
                                     ToolOutcome(script[m.turn], k, i), m.turn)

\* -------------------------------------------------------------- claims

\* C1: a turn whose model requests a tool on every invocation aborts at the
\* iteration bound: with bound 25 it is the 26th consecutive tool-call
\* response that aborts the turn.
C1_AbortsAtResponse26 ==
    \A p \in Procs :
        err[p] = "GraphRecursionError" => modelCalls[p] = RecursionLimit + 1

\* C2: of two turns on the same thread_id the second waits or fails with
\* ThreadBusy, so no two turns of one thread are in flight together, and the
\* history never holds a message of one turn between messages of another.
C2_OneTurnPerThread ==
    /\ \A p, q \in Procs :
          p # q /\ InFlight(p) /\ InFlight(q) => thread[p] # thread[q]
    /\ \A t \in Threads : \A i, j, k \in 1 .. Len(store[t]) :
          i < j /\ j < k /\ store[t][i].turn = store[t][k].turn
              => store[t][j].turn = store[t][i].turn

\* C3: every tool-result message of the Conversation Store answers a call of
\* the nearest preceding assistant message, which is of the same turn.
C3_NoOrphanToolResult ==
    \A t \in Threads : \A i \in 1 .. Len(store[t]) :
        store[t][i].role = "tool" =>
            \E j \in 1 .. i - 1 :
                /\ store[t][j].role = "assistant"
                /\ \A m \in j + 1 .. i - 1 : store[t][m].role = "tool"
                /\ store[t][j].turn = store[t][i].turn
                /\ \E c \in 1 .. Len(store[t][j].tool_calls) :
                       store[t][j].tool_calls[c].id = store[t][i].tool_call_id

\* C3's case: a turn was interrupted (its model failed) after a tool step,
\* and its thread's history holds the tool result.
C3_Witness ==
    \E p \in Procs :
        /\ err[p] = "ModelUnavailable"
        /\ \E i \in 1 .. Len(store[thread[p]]) :
               store[thread[p]][i].role = "tool" /\ store[thread[p]][i].turn = p

\* C4: at every model invocation the input is the system instruction
\* followed by the thread's full history in the Conversation Store at that
\* moment.
C4_InputIsStoredHistory ==
    [][\A p \in Procs :
          modelCalls'[p] # modelCalls[p]
              => lastInput'[p] = <<SystemMessage>> \o store[thread[p]]]_vars

\* C5, as stated: after turns that completed one after another on a thread,
\* the message count is the sum over the turns of 1 user + 1 final assistant
\* + 2 x the tool calls of the intermediate steps.
C5_CountTwicePerToolCall ==
    \A t \in Threads :
        Sequential(t) =>
            Len(store[t]) =
                SumOver(TurnsOn(t), [p \in Procs |-> 2 + 2 * toolInvs[p]])

\* C5, amended: each intermediate step adds 1 assistant message + 1 message
\* per tool call.  Every completed turn leaves the history it wrote that
\* much longer than the history it started from, and after turns that
\* completed one after another the thread's count is the sum.
C5_CountPerStepAndCall ==
    /\ \A p \in Procs :
          pc[p] = "done" =>
              Len(msgs[p]) = Len(loaded[p]) + 2 + (modelCalls[p] - 1) + toolInvs[p]
    /\ \A t \in Threads :
          Sequential(t) =>
              Len(store[t]) =
                  SumOver(TurnsOn(t),
                          [p \in Procs |-> 2 + (modelCalls[p] - 1) + toolInvs[p]])

\* C5's case: two turns completed one after another on a thread, one of
\* them with a step of two tool calls.
C5_Witness ==
    \E t \in Threads :
        /\ Sequential(t)
        /\ Cardinality(TurnsOn(t)) = 2
        /\ \E p \in TurnsOn(t) : script[p] = "two_tools"

\* C6: a turn whose first model response requests no tool call ends after
\* that one model invocation, with no tool invocation.
C6_NoToolOneModelCall ==
    \A p \in Procs :
        (modelCalls[p] >= 1 /\ ResponseOf(p, 1).ok /\ ResponseOf(p, 1).calls = <<>>)
            => pc[p] = "done" /\ modelCalls[p] = 1 /\ toolInvs[p] = 0

\* C6's case: such a turn has completed.
C6_Witness ==
    \E p \in Procs :
        pc[p] = "done" /\ ResponseOf(p, 1).calls = <<>> /\ modelCalls[p] = 1

\* C7: with the same backend and the same prior conversation, the increments
\* a streaming turn yields concatenate to the answer the non-streaming turn
\* returns.
C7_StreamEqualsInvoke ==
    \A p, q \in Procs :
        (/\ pc[p] = "done" /\ mode[p] = "stream"
         /\ pc[q] = "done" /\ mode[q] = "invoke"
         /\ script[p] = script[q]
         /\ UntagAll(loaded[p]) = UntagAll(loaded[q]))
            => yielded[p] = returned[q]

C10_UnseenThreadStartsEmpty ==
    \A p \in Procs :
        (fresh[p] /\ pc[p] # "idle") =>
            /\ loaded[p] = <<>>
            /\ modelCalls[p] = 0 => err[p] = ""
            /\ modelCalls[p] = 1 => lastInput[p] = <<SystemMessage, HumanMessage(p)>>

\* C10's case: the first turn on a thread invoked its model after a turn on
\* another thread had written messages.
C10_Witness ==
    \E p, q \in Procs :
        /\ fresh[p] /\ modelCalls[p] = 1 /\ thread[q] # thread[p]
        /\ pc[q] = "done" /\ q < p

C12_StreamedTextIsFinalMessage ==
    \A p \in Procs :
        (pc[p] = "done" /\ mode[p] = "stream") =>
            /\ msgs[p][Len(msgs[p])].role = "assistant"
            /\ msgs[p][Len(msgs[p])].content = yielded[p]
            /\ \A q \in Procs :
                  (/\ pc[q] = "done" /\ mode[q] = "invoke"
                   /\ script[q] = script[p]
                   /\ UntagAll(loaded[q]) = UntagAll(loaded[p]))
                      => UntagAll(msgs[q]) = UntagAll(msgs[p])

\* C13: in a streaming turn no increment is yielded for a model response
\* that requests tool calls, and no yielded increment is a marker naming a
\* tool.
C13_ToolBranchNotStreamed ==
    [][\A p \in Procs :
          /\ (/\ mode[p] = "stream"
              /\ modelCalls'[p] # modelCalls[p]
              /\ ResponseOf(p, modelCalls'[p]).calls # <<>>)
                => yielded'[p] = yielded[p]
          /\ \A i \in 1 .. Len(yielded'[p]) :
                yielded'[p][i] # "[Memanggil tool: query...]"]_vars

\* C14: no persisted conversation holds a system-role message, while every
\* model input starts with the system instruction, prepended at the
\* invocation.
C14_SystemPromptNotPersisted ==
    /\ \A t \in Threads : \A i \in 1 .. Len(store[t]) : store[t][i].role # "system"
    /\ \A p \in Procs :
          modelCalls[p] >= 1 =>
              /\ lastInput[p][1] = SystemMessage
              /\ \A i \in 2 .. Len(lastInput[p]) : lastInput[p][i].role # "system"

\* C14's case: a second turn on a thread invoked its model a second time,
\* after a tool step, on a history that holds a completed earlier turn.
C14_Witness ==
    \E p, q \in Procs :
        /\ p < q /\ thread[p] = thread[q] /\ pc[p] = "done"
        /\ loaded[q] = msgs[p] /\ modelCalls[q] = 2 /\ toolInvs[q] >= 1
        /\ Len(store[thread[q]]) > Len(loaded[q]) + 2

\* C15: the tool calls of one model response are invoked one after another:
\* no two tool invocations of one turn are in flight at the same time, and
\* the tool-result messages follow their assistant message in the order of
\* its calls.
C15_OneToolAtATime ==
    /\ \A p \in Procs : Cardinality(inflight[p]) <= 1
    /\ \A t \in Threads : \A j \in 1 .. Len(store[t]) - 1 :
          (store[t][j].role = "assistant" /\ store[t][j + 1].role = "tool") =>
              \A c \in 1 .. Len(store[t][j].tool_calls) :
                  /\ j + c <= Len(store[t])
                  /\ store[t][j + c].tool_call_id = store[t][j].tool_calls[c].id

\* C16: the step that completes a non-streaming turn returns the content of
\* the last message of the thread's conversation as it leaves it, and that
\* message is the assistant message without tool calls of this turn.
C16_ReturnsLastMessage ==
    [][\A p \in Procs :
          (pc[p] # "done" /\ pc'[p] = "done" /\ mode[p] = "invoke") =>
              LET history == store'[thread[p]]
                  last == history[Len(history)]
              IN  /\ returned'[p] = last.content
                  /\ last.role = "assistant"
                  /\ last.tool_calls = <<>>
                  /\ last.turn = p]_vars

\* C16's case: a non-streaming turn completed after a tool step, on a thread
\* that already held an earlier turn, and its answer is the last message of
\* the thread.
C16_Witness ==
    \E p \in Procs :
        /\ pc[p] = "done" /\ mode[p] = "invoke" /\ toolInvs[p] >= 1
        /\ loaded[p] # <<>>
        /\ store[thread[p]] = msgs[p]
        /\ returned[p] = msgs[p][Len(msgs[p])].content
        /\ returned[p] # <<>>

\* C17: a step of a turn changes the conversation of no thread but its own;
\* and after it the conversation of every thread holds messages of its own
\* turns only, a thread with one turn holding what that turn leaves when no
\* other turn runs at all, whatever the turns on other threads do meanwhile.
C17_ThreadsIndependent ==
    [][/\ \A p \in Procs :
             (\/ pc'[p] # pc[p] \/ step'[p] # step[p]
              \/ inflight'[p] # inflight[p]) =>
                 \A u \in Threads \ {thread'[p]} : store'[u] = store[u]
       /\ \A t \in Threads : OwnHistory(t)']_vars

\* C17's case: two turns on different threads overlapped (the one that
\* arrived later has completed, after a tool step, while the earlier one is
\* waiting for its tools), and each thread holds its own turn.
C17_Witness ==
    \E p, q \in Procs :
        /\ p < q /\ thread[p] # thread[q]
        /\ pc[p] = "tools" /\ inflight[p] # {}
        /\ pc[q] = "done" /\ toolInvs[q] >= 1
        /\ store[thread[p]] = msgs[p] /\ store[thread[q]] = msgs[q]

\* C18: the conversation of a thread is append-only: the history before a
\* step is a prefix of the history after it.
C18_AppendOnly ==
    [][\A t \in Threads :
          /\ Len(store[t]) <= Len(store'[t])
          /\ \A i \in 1 .. Len(store[t]) : store'[t][i] = store[t][i]]_vars

C20_NeverRaises ==
    \A i \in 1 .. Len(asked) :
        LET call == asked[i]
            failure == IF call.mindsdb.get # "ok" THEN call.mindsdb.get
                       ELSE IF call.mindsdb.completion # "ok"
                       THEN call.mindsdb.completion
                       ELSE IF call.mindsdb.content = "AttributeError"
                       THEN "AttributeError" ELSE ""
        IN  /\ call.result.raised = ""
            /\ call.server = "None" =>
                   /\ call.result.returned = "Error: Tidak terhubung ke MindsDB Server."
                   /\ call.result.contacts = <<>>
            /\ (call.server = "connected" /\ failure # "") =>
                   call.result.returned = "Terjadi kesalahan: " \o failure
            /\ (call.server = "connected" /\ failure = "") =>
                   /\ call.result.returned = call.mindsdb.content
                   /\ Len(call.result.contacts) = 2

\* C20's case: a connected service was asked twice; the agent lookup of one
\* call failed and the other call was answered.
C20_Witness ==
    /\ server = "connected" /\ Len(asked) = 2
    /\ asked[1].mindsdb.get = "AgentNotFound"
    /\ asked[1].result.returned = "Terjadi kesalahan: AgentNotFound"
    /\ asked[2].result.returned = "answer"

=========================================================================
